---- MODULE Spec2Model ----
(***************************************************************************)
(* Script Sentinel: the classification resolver (analyzeScript), the batch *)
(* orchestrator (POST /analyze), the chat route (POST /chat) and the       *)
(* ScriptAnalyzer Durable Object (analysis log and chat sessions).         *)
(*                                                                         *)
(* Strings that the code inspects character by character (URLs, hosts,     *)
(* registry keys, framework markers) are sequences of one-character        *)
(* strings, so that replace(/^www\./), endsWith and includes are computed  *)
(* as the code computes them.  Texts that the code only copies (names,     *)
(* purposes, reasons) are opaque TLA+ strings.                             *)
(***************************************************************************)
EXTENDS Integers, Sequences, FiniteSets, TLC

VARIABLES
    script,       \* analyzeScript: the ScriptInfo argument
    pageDomain,   \* analyzeScript: the pageDomain argument
    rpc,          \* analyzeScript: position of the call
    result,       \* analyzeScript: the ScriptAnalysis it resolved with
    aiCalls,      \* analyzeScript: number of env.AI.run calls issued
    aiOutcome,    \* analyzeScript: what the issued env.AI.run call did
    reqUrl,       \* POST /analyze: the url of the request body
    apc,          \* POST /analyze: position of the handler
    scripts,      \* POST /analyze: the script requests logged so far
    loadSuccess,  \* POST /analyze: the loadSuccess flag
    thirdPartyScripts, \* POST /analyze: the filtered list
    tasks,        \* POST /analyze: the promises handed to Promise.all
    completed,    \* POST /analyze: indices of the oracle-bound calls, in completion order
    aresp,        \* POST /analyze: the response sent to the caller
    now,          \* Date.now()
    analysisStore, \* storage of each Durable Object: the "analysis:" keys
    storeAcks,    \* storeAnalysis: the keys acknowledged with success so far
    storeResp,    \* storeAnalysis: the latest response
    chatStore,    \* storage of each Durable Object: the "chat:" keys
    chat,         \* POST /chat: the requests and their positions
    doResp        \* the request a Durable Object answered in the latest step, if any

resolverVars == <<script, pageDomain, rpc, result, aiCalls, aiOutcome>>

analyzeVars == <<reqUrl, apc, scripts, loadSuccess, thirdPartyScripts, tasks,
                 completed, aresp>>

storeVars == <<now, analysisStore, storeAcks, storeResp>>

chatVars == <<chatStore, chat, doResp>>

vars == <<resolverVars, analyzeVars, storeVars, chatVars>>

-----------------------------------------------------------------------------
(* String literals                                                         *)

HOST_shop_example_com ==
    <<"s","h","o","p",".","e","x","a","m","p","l","e",".","c","o","m">>  \* "shop.example.com"
HOST_www_example_com ==
    <<"w","w","w",".","e","x","a","m","p","l","e",".","c","o","m">>  \* "www.example.com"
HOST_example_com ==
    <<"e","x","a","m","p","l","e",".","c","o","m">>  \* "example.com"
HOST_facebook_net ==
    <<"f","a","c","e","b","o","o","k",".","n","e","t">>  \* "facebook.net"
URL_app ==
    <<"h","t","t","p","s",":","/","/","s","h","o","p",".","e","x","a","m","p","l","e",".","c","o","m","/","a","p","p",".","j","s">>  \* "https://shop.example.com/app.js"
URL_www ==
    <<"h","t","t","p","s",":","/","/","w","w","w",".","e","x","a","m","p","l","e",".","c","o","m","/","a",".","j","s">>  \* "https://www.example.com/a.js"
URL_cdn ==
    <<"h","t","t","p","s",":","/","/","c","d","n",".","s","h","o","p",".","e","x","a","m","p","l","e",".","c","o","m","/","a",".","j","s">>  \* "https://cdn.shop.example.com/a.js"
URL_notexample ==
    <<"h","t","t","p","s",":","/","/","n","o","t","e","x","a","m","p","l","e",".","c","o","m","/","x",".","j","s">>  \* "https://notexample.com/x.js"
URL_gtag ==
    <<"h","t","t","p","s",":","/","/","w","w","w",".","g","o","o","g","l","e","t","a","g","m","a","n","a","g","e","r",".","c","o","m","/","g","t","a","g","/","j","s">>  \* "https://www.googletagmanager.com/gtag/js"
URL_stripe ==
    <<"h","t","t","p","s",":","/","/","j","s",".","s","t","r","i","p","e",".","c","o","m","/","v","3">>  \* "https://js.stripe.com/v3"
URL_stripe_evil ==
    <<"h","t","t","p","s",":","/","/","s","t","r","i","p","e",".","c","o","m",".","e","v","i","l",".","i","o","/","x",".","j","s">>  \* "https://stripe.com.evil.io/x.js"
URL_fbsdk ==
    <<"h","t","t","p","s",":","/","/","c","o","n","n","e","c","t",".","f","a","c","e","b","o","o","k",".","n","e","t","/","s","d","k",".","j","s">>  \* "https://connect.facebook.net/sdk.js"
URL_fbruntime ==
    <<"h","t","t","p","s",":","/","/","c","o","n","n","e","c","t",".","f","a","c","e","b","o","o","k",".","n","e","t","/","r","u","n","t","i","m","e",".","j","s">>  \* "https://connect.facebook.net/runtime.js"
URL_evil ==
    <<"h","t","t","p","s",":","/","/","e","v","i","l","-","t","r","a","c","k","e","r",".","i","o","/","x",".","j","s">>  \* "https://evil-tracker.io/x.js"
URL_chunk ==
    <<"h","t","t","p","s",":","/","/","c","d","n",".","e","v","i","l",".","i","o","/","c","h","u","n","k",".","j","s">>  \* "https://cdn.evil.io/chunk.js"
PAGE_shop ==
    <<"h","t","t","p","s",":","/","/","s","h","o","p",".","e","x","a","m","p","l","e",".","c","o","m","/">>  \* "https://shop.example.com/"
PAGE_www ==
    <<"h","t","t","p","s",":","/","/","w","w","w",".","e","x","a","m","p","l","e",".","c","o","m","/">>  \* "https://www.example.com/"
URL_malformed ==
    <<"n","o","t"," ","a"," ","u","r","l">>  \* "not a url"
URL_spoofed ==
    <<"h","t","t","p","s",":","/","/","s","p","o","o","f","e","d",".","i","o","/","s",".","j","s">>  \* "https://spoofed.io/s.js"

-----------------------------------------------------------------------------
(* String operations of the JavaScript runtime                             *)

\* String.prototype.startsWith
StartsWith(s, p) == Len(p) <= Len(s) /\ SubSeq(s, 1, Len(p)) = p

\* String.prototype.endsWith
EndsWith(s, p) == Len(p) <= Len(s) /\ SubSeq(s, Len(s) - Len(p) + 1, Len(s)) = p

\* String.prototype.includes
Includes(s, p) == \E i \in 1..(Len(s) - Len(p) + 1) : SubSeq(s, i, i + Len(p) - 1) = p

\* s.replace(/^www\./, "")
StripWww(s) ==
    IF StartsWith(s, <<"w","w","w",".">>) THEN SubSeq(s, 5, Len(s)) ELSE s

\* The characters that end the host part of an http(s) URL.
HostEnd == {"/", "?", "#", ":"}

\* The part of an http(s) URL after "scheme://", or <<>> for any other text.
AfterScheme(u) ==
    IF StartsWith(u, <<"h","t","t","p","s",":","/","/">>) THEN SubSeq(u, 9, Len(u))
    ELSE IF StartsWith(u, <<"h","t","t","p",":","/","/">>) THEN SubSeq(u, 8, Len(u))
    ELSE <<>>

\* The host of the text after the scheme: everything before the first HostEnd.
HostPart(r) ==
    LET ends == {i \in 1..Len(r) : r[i] \in HostEnd}
        stop == IF ends = {} THEN Len(r) + 1
                ELSE CHOOSE i \in ends : \A j \in ends : i <= j
    IN  SubSeq(r, 1, stop - 1)

\* new URL(u) succeeds: an http(s) URL with a non-empty host without blanks.
URLParses(u) ==
    LET h == HostPart(AfterScheme(u))
    IN  h # <<>> /\ \A i \in 1..Len(h) : h[i] # " "

\* new URL(u).hostname, for a u that parses.
hostname(u) == HostPart(AfterScheme(u))

-----------------------------------------------------------------------------
(* Classification resolver: helpers and registry                           *)

\* isFirstParty without the parent-domain disjunct.
isFirstParty_NoParent(scriptUrl, pd) ==
    IF ~URLParses(scriptUrl) THEN FALSE
    ELSE LET scriptDomain == hostname(scriptUrl)
             pageBase     == StripWww(pd)
             scriptBase   == StripWww(scriptDomain)
         IN  \/ scriptBase = pageBase
             \/ EndsWith(scriptBase, <<".">> \o pageBase)

\* isFirstParty(scriptUrl, pageDomain); the catch branch answers false.
isFirstParty(scriptUrl, pd) ==
    IF ~URLParses(scriptUrl) THEN FALSE
    ELSE LET scriptDomain == hostname(scriptUrl)
             pageBase     == StripWww(pd)
             scriptBase   == StripWww(scriptDomain)
         IN  \/ scriptBase = pageBase
             \/ EndsWith(scriptBase, <<".">> \o pageBase)
             \/ EndsWith(pageBase, <<".">> \o scriptBase)

frameworkPatterns ==
    << <<"/","_","n","e","x","t","/","s","t","a","t","i","c","/">>,
       <<"/","_","n","u","x","t","/">>,
       <<"/","w","e","b","p","a","c","k">>,
       <<"/","r","e","a","c","t">>,
       <<"/","v","u","e">>,
       <<"c","h","u","n","k">>,
       <<"r","u","n","t","i","m","e">> >>

\* isKnownFramework(scriptUrl): some pattern is a substring of the whole URL.
isKnownFramework(scriptUrl) ==
    \E i \in 1..Len(frameworkPatterns) : Includes(scriptUrl, frameworkPatterns[i])

\* The registry, in declaration order (the order Object.entries enumerates).
KNOWN_SERVICES ==
    << [key |-> <<"r","a","z","o","r","p","a","y",".","c","o","m">>,
        tpl |-> [scriptName |-> "Razorpay Payment Gateway", purpose |-> "Secure payment processing for Indian market", dataCollected |-> <<"payment details", "transaction data", "contact info">>, riskLevel |-> "LOW", recommendation |-> "ALLOW", reasoning |-> "Legitimate payment gateway used by thousands of businesses"]],
       [key |-> <<"s","t","r","i","p","e",".","c","o","m">>,
        tpl |-> [scriptName |-> "Stripe Payment Gateway", purpose |-> "Payment processing", dataCollected |-> <<"payment details", "transaction data">>, riskLevel |-> "LOW", recommendation |-> "ALLOW"]],
       [key |-> <<"p","a","y","p","a","l",".","c","o","m">>,
        tpl |-> [scriptName |-> "PayPal", purpose |-> "Payment processing", dataCollected |-> <<"payment details", "transaction data">>, riskLevel |-> "LOW", recommendation |-> "ALLOW"]],
       [key |-> <<"g","o","o","g","l","e","-","a","n","a","l","y","t","i","c","s",".","c","o","m">>,
        tpl |-> [scriptName |-> "Google Analytics", purpose |-> "Website analytics and tracking", dataCollected |-> <<"page views", "user behavior", "device info">>, riskLevel |-> "LOW", recommendation |-> "ALLOW"]],
       [key |-> <<"g","o","o","g","l","e","t","a","g","m","a","n","a","g","e","r",".","c","o","m">>,
        tpl |-> [scriptName |-> "Google Tag Manager", purpose |-> "Tag management system", dataCollected |-> <<"page views", "events", "user interactions">>, riskLevel |-> "LOW", recommendation |-> "ALLOW"]],
       [key |-> <<"f","a","c","e","b","o","o","k",".","n","e","t">>,
        tpl |-> [scriptName |-> "Facebook Pixel", purpose |-> "Advertising and conversion tracking", dataCollected |-> <<"page views", "events", "user behavior">>, riskLevel |-> "MEDIUM", recommendation |-> "MONITOR", reasoning |-> "Tracks user behavior for advertising purposes"]],
       [key |-> <<"c","o","n","n","e","c","t",".","f","a","c","e","b","o","o","k",".","n","e","t">>,
        tpl |-> [scriptName |-> "Facebook SDK", purpose |-> "Social login and sharing", dataCollected |-> <<"profile data", "social interactions">>, riskLevel |-> "MEDIUM", recommendation |-> "MONITOR"]],
       [key |-> <<"d","o","u","b","l","e","c","l","i","c","k",".","n","e","t">>,
        tpl |-> [scriptName |-> "Google DoubleClick", purpose |-> "Ad serving and tracking", dataCollected |-> <<"browsing behavior", "ad interactions">>, riskLevel |-> "MEDIUM", recommendation |-> "MONITOR"]],
       [key |-> <<"g","o","o","g","l","e","s","y","n","d","i","c","a","t","i","o","n",".","c","o","m">>,
        tpl |-> [scriptName |-> "Google AdSense", purpose |-> "Display advertisements", dataCollected |-> <<"browsing context", "ad performance">>, riskLevel |-> "MEDIUM", recommendation |-> "MONITOR"]],
       [key |-> <<"a","j","a","x",".","g","o","o","g","l","e","a","p","i","s",".","c","o","m">>,
        tpl |-> [scriptName |-> "Google CDN", purpose |-> "Content delivery (libraries)", dataCollected |-> <<"basic request data">>, riskLevel |-> "LOW", recommendation |-> "ALLOW"]],
       [key |-> <<"c","d","n",".","j","s","d","e","l","i","v","r",".","n","e","t">>,
        tpl |-> [scriptName |-> "jsDelivr CDN", purpose |-> "Content delivery network", dataCollected |-> <<"basic request data">>, riskLevel |-> "LOW", recommendation |-> "ALLOW"]],
       [key |-> <<"c","d","n","j","s",".","c","l","o","u","d","f","l","a","r","e",".","c","o","m">>,
        tpl |-> [scriptName |-> "Cloudflare CDN", purpose |-> "Content delivery network", dataCollected |-> <<"basic request data">>, riskLevel |-> "LOW", recommendation |-> "ALLOW"]],
       [key |-> <<"u","n","p","k","g",".","c","o","m">>,
        tpl |-> [scriptName |-> "UNPKG CDN", purpose |-> "NPM package CDN", dataCollected |-> <<"basic request data">>, riskLevel |-> "LOW", recommendation |-> "ALLOW"]] >>

RECURSIVE ServiceLoop(_, _)
\* The for-loop over Object.entries(KNOWN_SERVICES) from entry i on: the index
\* of the entry at which it returns, or 0 when it runs to its end.
ServiceLoop(scriptDomain, i) ==
    IF i > Len(KNOWN_SERVICES) THEN 0
    ELSE IF Includes(scriptDomain, KNOWN_SERVICES[i].key) THEN i
    ELSE ServiceLoop(scriptDomain, i + 1)

\* The registry loop matching the key as a suffix of the host only.
FirstServiceMatch_Suffix(scriptDomain) ==
    LET hits == {i \in 1..Len(KNOWN_SERVICES) : EndsWith(scriptDomain, KNOWN_SERVICES[i].key)}
    IN  IF hits = {} THEN 0 ELSE CHOOSE i \in hits : \A j \in hits : i <= j

\* A registry lookup in which the last matching entry wins.
FirstServiceMatch_Last(scriptDomain) ==
    LET hits == {i \in 1..Len(KNOWN_SERVICES) : Includes(scriptDomain, KNOWN_SERVICES[i].key)}
    IN  IF hits = {} THEN 0 ELSE CHOOSE i \in hits : \A j \in hits : j <= i

\* Index of the first registry entry whose key is a substring of the host,
\* or 0 when the for-loop runs to its end.
FirstServiceMatch(scriptDomain) == ServiceLoop(scriptDomain, 1)

\* value.f || dflt, for a partial template.
OrDefault(value, f, dflt) == IF f \in DOMAIN value THEN value[f] ELSE dflt

\* The record returned by the first-party branch.
FirstPartyRecord(scriptUrl, pd) ==
    [scriptUrl |-> scriptUrl,
     scriptName |-> "First-Party Script",
     purpose |-> "Part of the website's core functionality",
     dataCollected |-> <<"Website functionality data only">>,
     destinations |-> <<hostname(scriptUrl)>>,
     riskLevel |-> "LOW",
     reasoning |-> "This script is hosted on the same domain as the website",
     recommendation |-> "ALLOW",
     userFriendlyExplanation |-> <<"This script is part of", pd, "own code">>]

\* The record returned by the known-framework branch.
FrameworkRecord(scriptUrl) ==
    [scriptUrl |-> scriptUrl,
     scriptName |-> "Web Framework Component",
     purpose |-> "Powers website features and interactivity",
     dataCollected |-> <<"Browser compatibility data">>,
     destinations |-> <<hostname(scriptUrl)>>,
     riskLevel |-> "LOW",
     reasoning |-> "Standard web framework file (Next.js/React/Vue)",
     recommendation |-> "ALLOW",
     userFriendlyExplanation |-> <<"This is a framework file">>]

\* The record returned from inside the registry loop for entry i.
ServiceRecord(scriptUrl, i) ==
    LET value == KNOWN_SERVICES[i].tpl
    IN  [scriptUrl |-> scriptUrl,
         scriptName |-> OrDefault(value, "scriptName", "Known Service"),
         purpose |-> OrDefault(value, "purpose", "Third-party service"),
         dataCollected |-> OrDefault(value, "dataCollected", <<>>),
         destinations |-> <<hostname(scriptUrl)>>,
         riskLevel |-> OrDefault(value, "riskLevel", "MEDIUM"),
         reasoning |-> OrDefault(value, "reasoning", "Recognized third-party service"),
         recommendation |-> OrDefault(value, "recommendation", "MONITOR"),
         userFriendlyExplanation |->
             <<"This is", OrDefault(value, "scriptName", "undefined"),
               "commonly used for", OrDefault(value, "purpose", "undefined"),
               IF OrDefault(value, "riskLevel", "undefined") = "LOW"
               THEN "It's generally safe." ELSE "Monitor for privacy concerns.">>]

\* The record returned by the catch block, for a URL that parses.
FallbackRecord(scriptUrl) ==
    [scriptUrl |-> scriptUrl,
     scriptName |-> "Unrecognized Third-Party Script",
     purpose |-> "Unknown - requires manual review",
     dataCollected |-> <<"Unknown - should be investigated">>,
     destinations |-> <<hostname(scriptUrl)>>,
     riskLevel |-> "MEDIUM",
     reasoning |-> "This script is from an unfamiliar domain and should be reviewed by a developer",
     recommendation |-> "MONITOR",
     userFriendlyExplanation |-> <<"This script is from", hostname(scriptUrl), "not in our database", "review">>]

-----------------------------------------------------------------------------
(* Oracle (env.AI.run) for the classification call                         *)

\* Longest oracle text, in tokens.
MaxTextLen == 4

\* An oracle text is a sequence of tokens: an opening brace, a closing brace,
\* a stretch of prose without braces, or a complete comma-separated member
\* list of a flat JSON object ("full", "bad").
MemberTokens == {"full", "bad"}
Tokens == {"{", "}", "x"} \cup MemberTokens

\* The members a member token stands for.
MemberFields(tok) ==
    IF tok = "full"
    THEN [scriptName |-> "Evil Tracker",
          purpose |-> "Cross-site tracking",
          dataCollected |-> <<"cookies">>,
          riskLevel |-> "HIGH",
          reasoning |-> "Known tracker",
          recommendation |-> "BLOCK",
          userFriendlyExplanation |-> <<"Tracks you">>]
    ELSE [riskLevel |-> "SEVERE",
          scriptUrl |-> URL_spoofed,
          destinations |-> <<>>]

RECURSIVE SeqsUpTo(_, _)
\* All sequences over S of length at most n.
SeqsUpTo(S, n) ==
    IF n = 0 THEN {<<>>}
    ELSE LET shorter == SeqsUpTo(S, n - 1)
         IN  shorter \cup {Append(t, x) : t \in {q \in shorter : Len(q) = n - 1}, x \in S}

Texts == SeqsUpTo(Tokens, MaxTextLen)

\* What env.AI.run resolves with: an object carrying the text in .response or
\* in .result, or the bare text ("raw"; the empty raw text also stands for a
\* null or undefined response).
AIResponses == [shape : {"response", "result", "raw"}, text : Texts]

\* String(response?.response || response?.result || response || "").
\* An object whose text field is empty is itself the truthy operand, and
\* String(object) is "[object Object]": prose without braces.
ResponseText(r) ==
    IF r.shape = "raw" THEN r.text
    ELSE IF r.text # <<>> THEN r.text
    ELSE <<"x">>

\* String(text).match(/\{[\s\S]*\}/): the greedy match runs from the first
\* opening brace to the last closing brace after it; <<>> when there is none.
jsonMatch(text) ==
    LET opens  == {i \in 1..Len(text) : text[i] = "{"}
        first  == CHOOSE i \in opens : \A j \in opens : i <= j
        closes == {i \in 1..Len(text) : text[i] = "}" /\ opens # {} /\ i > first}
        last   == CHOOSE i \in closes : \A j \in closes : j <= i
    IN  IF opens = {} \/ closes = {} THEN <<>> ELSE SubSeq(text, first, last)

\* JSON.parse(span) does not throw: the span is one flat object.
JSONParses(span) ==
    \/ span = <<"{", "}">>
    \/ Len(span) = 3 /\ span[1] = "{" /\ span[2] \in MemberTokens /\ span[3] = "}"

\* JSON.parse(span), for a span that parses.
JSONParse(span) ==
    IF Len(span) = 3 THEN MemberFields(span[2]) ELSE [k \in {} |-> ""]

\* { ...base, ...over }
Spread(base, over) ==
    [k \in DOMAIN base \cup DOMAIN over |->
        IF k \in DOMAIN over THEN over[k] ELSE base[k]]

\* A tail that takes every matched span for an object, parsed or not.
AfterAIReturn_Unchecked(scriptUrl, r) ==
    LET span == jsonMatch(ResponseText(r))
    IN  IF span # <<>>
        THEN Spread([scriptUrl |-> scriptUrl, destinations |-> <<hostname(scriptUrl)>>],
                    JSONParse(span))
        ELSE FallbackRecord(scriptUrl)

\* The tail of analyzeScript after env.AI.run resolved with r.
AfterAIReturn(scriptUrl, r) ==
    LET span == jsonMatch(ResponseText(r))
    IN  IF span # <<>> /\ JSONParses(span)
        THEN Spread([scriptUrl |-> scriptUrl, destinations |-> <<hostname(scriptUrl)>>],
                    JSONParse(span))
        ELSE FallbackRecord(scriptUrl)

\* The tail of analyzeScript after env.AI.run threw.
AfterAIThrow(scriptUrl) == FallbackRecord(scriptUrl)

\* A decision chain that consults the registry before the framework markers.
SyncPart_RegistryFirst(scriptUrl, pd) ==
    IF ~URLParses(scriptUrl) THEN [kind |-> "threw"]
    ELSE IF isFirstParty(scriptUrl, pd)
         THEN [kind |-> "record", rec |-> FirstPartyRecord(scriptUrl, pd)]
    ELSE IF FirstServiceMatch(hostname(scriptUrl)) # 0
         THEN [kind |-> "record",
               rec |-> ServiceRecord(scriptUrl, FirstServiceMatch(hostname(scriptUrl)))]
    ELSE IF isKnownFramework(scriptUrl)
         THEN [kind |-> "record", rec |-> FrameworkRecord(scriptUrl)]
    ELSE [kind |-> "ai"]

\* analyzeScript up to its first await: "threw" when new URL throws in the
\* try block and again in the catch block, "record" when one of the three
\* synchronous tiers returns, "ai" when env.AI.run is called.
SyncPart(scriptUrl, pd) ==
    IF ~URLParses(scriptUrl) THEN [kind |-> "threw"]
    ELSE IF isFirstParty(scriptUrl, pd)
         THEN [kind |-> "record", rec |-> FirstPartyRecord(scriptUrl, pd)]
    ELSE IF isKnownFramework(scriptUrl)
         THEN [kind |-> "record", rec |-> FrameworkRecord(scriptUrl)]
    ELSE IF FirstServiceMatch(hostname(scriptUrl)) # 0
         THEN [kind |-> "record",
               rec |-> ServiceRecord(scriptUrl, FirstServiceMatch(hostname(scriptUrl)))]
    ELSE [kind |-> "ai"]

-----------------------------------------------------------------------------
(* States in which a part of the system has not been used                  *)

NoRecord == [none |-> TRUE]
NoOutcome == [kind |-> "none"]
NoResponse == [status |-> 0]
NoDOResponse == [op |-> "none"]

\* The names of the Durable Object instances.
DONames == {"global", "s1", "s2"}

\* The empty storage map.
EmptyMap == [k \in {} |-> NoRecord]

ResolverIdle ==
    /\ script = [url |-> <<>>]
    /\ pageDomain = <<>>
    /\ rpc = "idle"
    /\ result = NoRecord
    /\ aiCalls = 0
    /\ aiOutcome = NoOutcome

AnalyzeIdle ==
    /\ reqUrl = <<>>
    /\ apc = "idle"
    /\ scripts = <<>>
    /\ loadSuccess = FALSE
    /\ thirdPartyScripts = <<>>
    /\ tasks = <<>>
    /\ completed = <<>>
    /\ aresp = NoResponse

StoreEmpty ==
    /\ now = 0
    /\ analysisStore = [d \in DONames |-> EmptyMap]
    /\ storeAcks = <<>>
    /\ storeResp = NoResponse

\* The chat requests of a run.
ChatReqs == {1, 2}

NoReply == [text |-> "", truncated |-> FALSE]
NoSession == [none |-> TRUE]
NoAnalysis == [none |-> TRUE]
NoContext == [kind |-> "none"]

IdleChat ==
    [pc |-> "idle", message |-> "", sessionId |-> "",
     prompt |-> NoContext,
     reply |-> NoReply, asked |-> FALSE, failed |-> FALSE, session |-> NoSession,
     userStatus |-> 0, asstStatus |-> 0, resp |-> NoResponse,
     base |-> <<>>, existed |-> FALSE, disturbed |-> FALSE]

ChatIdle ==
    /\ chatStore = [d \in DONames |-> EmptyMap]
    /\ chat = [q \in ChatReqs |-> IdleChat]
    /\ doResp = NoDOResponse

-----------------------------------------------------------------------------
(* analyzeScript called on its own                                         *)

ScriptUrls ==
    {URL_app, URL_www, URL_cdn, URL_notexample, URL_gtag, URL_stripe,
     URL_stripe_evil, URL_fbsdk, URL_fbruntime, URL_evil, URL_chunk,
     URL_malformed}

PageDomains ==
    {HOST_shop_example_com, HOST_www_example_com, HOST_example_com, HOST_facebook_net}

ResolverInit ==
    /\ AnalyzeIdle
    /\ StoreEmpty
    /\ ChatIdle
    /\ script \in [url : ScriptUrls]
    /\ pageDomain \in PageDomains
    /\ rpc = "call"
    /\ result = NoRecord
    /\ aiCalls = 0
    /\ aiOutcome = NoOutcome

\* The call runs to its first await or to its end.
analyzeScript ==
    /\ rpc = "call"
    /\ LET s == SyncPart(script.url, pageDomain)
       IN  /\ rpc' = IF s.kind = "threw" THEN "threw"
                     ELSE IF s.kind = "record" THEN "returned" ELSE "awaitAI"
           /\ result' = IF s.kind = "record" THEN s.rec ELSE result
           /\ aiCalls' = IF s.kind = "ai" THEN aiCalls + 1 ELSE aiCalls
    /\ UNCHANGED <<script, pageDomain, aiOutcome, analyzeVars, storeVars, chatVars>>

\* env.AI.run resolves.
AIReturns ==
    /\ rpc = "awaitAI"
    /\ \E r \in AIResponses :
          /\ aiOutcome' = [kind |-> "return", shape |-> r.shape, text |-> r.text]
          /\ result' = AfterAIReturn(script.url, r)
    /\ rpc' = "returned"
    /\ UNCHANGED <<script, pageDomain, aiCalls, analyzeVars, storeVars, chatVars>>

\* env.AI.run rejects.
AIThrows ==
    /\ rpc = "awaitAI"
    /\ aiOutcome' = [kind |-> "throw"]
    /\ result' = AfterAIThrow(script.url)
    /\ rpc' = "returned"
    /\ UNCHANGED <<script, pageDomain, aiCalls, analyzeVars, storeVars, chatVars>>

ResolverNext == analyzeScript \/ AIReturns \/ AIThrows

SpecResolver == ResolverInit /\ [][ResolverNext]_vars

-----------------------------------------------------------------------------
(* Claims about analyzeScript                                              *)

\* C1: for every script URL, also one that does not parse, and every oracle
\* behaviour, analyzeScript ends with a record and never throws to its caller.
C1_NeverPropagates == rpc # "threw"

RECURSIVE C2_Labels(_)
\* The dot-separated labels of a host, first label first.
C2_Labels(h) ==
    LET dots == {i \in 1..Len(h) : h[i] = "."}
    IN  IF dots = {} THEN <<h>>
        ELSE LET d == CHOOSE i \in dots : \A j \in dots : i <= j
             IN  <<SubSeq(h, 1, d - 1)>> \o C2_Labels(SubSeq(h, d + 1, Len(h)))

\* The labels without a leading "www".
C2_Base(h) ==
    LET l == C2_Labels(h)
    IN  IF Len(l) > 1 /\ l[1] = <<"w","w","w">> THEN Tail(l) ELSE l

\* a is b or a subdomain of b: b's labels are the last labels of a.
C2_Under(a, b) == Len(b) <= Len(a) /\ SubSeq(a, Len(a) - Len(b) + 1, Len(a)) = b

\* The script's host equals the page host or is a subdomain or parent of it.
C2_Related ==
    /\ URLParses(script.url)
    /\ LET sb == C2_Base(hostname(script.url))
           pb == C2_Base(pageDomain)
       IN  C2_Under(sb, pb) \/ C2_Under(pb, sb)

\* C2: a script whose host is related to the page host gets LOW / ALLOW,
\* whatever the registry holds and whatever the oracle would answer.
C2_FirstPartyLowAllow ==
    (rpc = "returned" /\ C2_Related) =>
        /\ result.riskLevel = "LOW"
        /\ result.recommendation = "ALLOW"
        /\ aiCalls = 0

\* A parent-domain script whose host holds a MEDIUM/MONITOR registry key.
C2_Witness ==
    /\ rpc = "returned"
    /\ C2_Related
    /\ script.url = URL_fbsdk
    /\ pageDomain = HOST_facebook_net
    /\ result.riskLevel = "LOW"

\* Some registry key is a substring of the script's host.
C3_HostHoldsKey ==
    /\ URLParses(script.url)
    /\ \E i \in 1..Len(KNOWN_SERVICES) :
          Includes(hostname(script.url), KNOWN_SERVICES[i].key)

\* C3: for a script whose host contains a registry key no env.AI.run call is
\* ever issued.
C3_NoOracleForRegistered == C3_HostHoldsKey => (aiCalls = 0 /\ rpc # "awaitAI")

\* The registry tier answered for a host that holds a key in its middle.
C3_Witness ==
    /\ rpc = "returned"
    /\ script.url = URL_stripe_evil
    /\ ~isFirstParty(script.url, pageDomain)
    /\ result.scriptName = "Stripe Payment Gateway"
    /\ aiCalls = 0

\* The text has no opening brace followed by a closing brace.
C4_NoSpan(text) ==
    ~ \E i, j \in 1..Len(text) : i < j /\ text[i] = "{" /\ text[j] = "}"

\* The oracle threw, or its text has no {...} span, or the span is not JSON.
C4_OracleFailed ==
    \/ aiOutcome.kind = "throw"
    \/ /\ aiOutcome.kind = "return"
       /\ LET text == ResponseText(aiOutcome)
          IN  C4_NoSpan(text) \/ ~JSONParses(jsonMatch(text))

\* C4: when the oracle tier is reached and the oracle call throws, or its text
\* has no {...} span, or the span is not valid JSON, the result is the fixed
\* record Unrecognized Third-Party Script / MEDIUM / MONITOR.
C4_OracleFallback ==
    (rpc = "returned" /\ aiCalls = 1 /\ C4_OracleFailed) =>
        /\ "scriptName" \in DOMAIN result
        /\ result.scriptName = "Unrecognized Third-Party Script"
        /\ result.riskLevel = "MEDIUM"
        /\ result.recommendation = "MONITOR"
        /\ result = FallbackRecord(script.url)

\* The oracle answered with braces around prose: a span that is not JSON.
C4_Witness ==
    /\ rpc = "returned"
    /\ aiCalls = 1
    /\ aiOutcome.kind = "return"
    /\ ResponseText(aiOutcome) = <<"x", "{", "x", "}">>
    /\ result.scriptName = "Unrecognized Third-Party Script"

\* Some framework marker is a substring of the script URL.
C17_HasMarker ==
    \E i \in 1..Len(frameworkPatterns) : Includes(script.url, frameworkPatterns[i])

\* The tier that answers first in the order first-party, known-framework,
\* registry, oracle.
C17_FirstTier ==
    IF C2_Related THEN "first-party"
    ELSE IF C17_HasMarker THEN "framework"
    ELSE IF C3_HostHoldsKey THEN "registry"
    ELSE "oracle"

\* C17: the tiers are evaluated in the order first-party, known-framework,
\* registry, oracle and the record comes from the first tier that matches;
\* the oracle is called only when none of the first three tiers matches.
C17_StrictTierOrder ==
    (URLParses(script.url) /\ rpc \in {"awaitAI", "returned"}) =>
        /\ (aiCalls = 1) <=> (C17_FirstTier = "oracle")
        /\ (rpc = "returned" /\ C17_FirstTier = "first-party")
               => result.scriptName = "First-Party Script"
        /\ (rpc = "returned" /\ C17_FirstTier = "framework")
               => /\ result.scriptName = "Web Framework Component"
                  /\ result.riskLevel = "LOW"
                  /\ result.recommendation = "ALLOW"
        /\ (rpc = "returned" /\ C17_FirstTier = "registry")
               => \E i \in 1..Len(KNOWN_SERVICES) :
                     result.scriptName = KNOWN_SERVICES[i].tpl.scriptName

\* A script with a framework marker in its path on a host that holds the key
\* of a MEDIUM / MONITOR registry entry got the framework record.
C17_Witness ==
    /\ rpc = "returned"
    /\ script.url = URL_fbruntime
    /\ ~C2_Related
    /\ C3_HostHoldsKey
    /\ KNOWN_SERVICES[FirstServiceMatch(hostname(script.url))].tpl.riskLevel = "MEDIUM"
    /\ KNOWN_SERVICES[FirstServiceMatch(hostname(script.url))].tpl.recommendation = "MONITOR"
    /\ result.scriptName = "Web Framework Component"
    /\ result.riskLevel = "LOW"
    /\ aiCalls = 0

\* The registry entries whose key is a substring of the script's host.
C18_Hits ==
    {i \in 1..Len(KNOWN_SERVICES) : Includes(hostname(script.url), KNOWN_SERVICES[i].key)}

\* C18: in the registry tier the earliest entry, in declaration order, whose
\* key is a substring of the host supplies name, purpose, data collected,
\* risk and recommendation, also when several keys are substrings of the host.
C18_EarliestKeyWins ==
    (rpc = "returned" /\ C17_FirstTier = "registry") =>
        \E i \in C18_Hits :
            /\ \A j \in C18_Hits : i <= j
            /\ result.scriptName = KNOWN_SERVICES[i].tpl.scriptName
            /\ result.purpose = KNOWN_SERVICES[i].tpl.purpose
            /\ result.dataCollected = KNOWN_SERVICES[i].tpl.dataCollected
            /\ result.riskLevel = KNOWN_SERVICES[i].tpl.riskLevel
            /\ result.recommendation = KNOWN_SERVICES[i].tpl.recommendation
            /\ result.scriptUrl = script.url
            /\ aiCalls = 0

\* The host connect.facebook.net holds the keys facebook.net and
\* connect.facebook.net: the record is that of the earlier key, facebook.net.
C18_Witness ==
    /\ rpc = "returned"
    /\ script.url = URL_fbsdk
    /\ C17_FirstTier = "registry"
    /\ Cardinality(C18_Hits) = 2
    /\ result.scriptName = "Facebook Pixel"

\* The nine fields of ScriptAnalysis.
C22_Fields ==
    {"scriptUrl", "scriptName", "purpose", "dataCollected", "destinations",
     "riskLevel", "reasoning", "recommendation", "userFriendlyExplanation"}

\* C22: every record analyzeScript returns, from any tier and for any oracle
\* response, carries the nine fields of ScriptAnalysis, a riskLevel among
\* LOW, MEDIUM, HIGH, CRITICAL and a recommendation among ALLOW, MONITOR,
\* BLOCK.
C22_RecordWellFormed ==
    rpc = "returned" =>
        /\ DOMAIN result = C22_Fields
        /\ result.riskLevel \in {"LOW", "MEDIUM", "HIGH", "CRITICAL"}
        /\ result.recommendation \in {"ALLOW", "MONITOR", "BLOCK"}

\* The first balanced {...} span of a text: it opens at the first opening
\* brace and is the empty object or an object with one member list; <<>>
\* when the text does not continue that way.
C23_FirstObject(text) ==
    LET opens == {i \in 1..Len(text) : text[i] = "{"}
        first == CHOOSE i \in opens : \A j \in opens : i <= j
    IN  IF opens = {} THEN <<>>
        ELSE IF first + 1 <= Len(text) /\ text[first + 1] = "}"
             THEN SubSeq(text, first, first + 1)
        ELSE IF first + 2 <= Len(text) /\ text[first + 1] \in MemberTokens
                                      /\ text[first + 2] = "}"
             THEN SubSeq(text, first, first + 2)
        ELSE <<>>

\* The text after the first balanced span holds another closing brace.
C23_TrailingBrace(text) ==
    LET obj   == C23_FirstObject(text)
        opens == {i \in 1..Len(text) : text[i] = "{"}
        first == CHOOSE i \in opens : \A j \in opens : i <= j
    IN  /\ obj # <<>>
        /\ \E i \in (first + Len(obj))..Len(text) : text[i] = "}"

\* C23: when the oracle's text is one valid JSON object followed by further
\* text that holds another closing brace, the record is built from that first
\* object and is not the fallback record.
C23_FirstObjectDecoded ==
    (rpc = "returned" /\ aiCalls = 1 /\ aiOutcome.kind = "return"
        /\ C23_TrailingBrace(ResponseText(aiOutcome))) =>
        result = Spread([scriptUrl |-> script.url,
                         destinations |-> <<hostname(script.url)>>],
                        JSONParse(C23_FirstObject(ResponseText(aiOutcome))))

\* C26: every record analyzeScript returns for a script has the script's URL
\* as scriptUrl and the one-element list of that URL's host as destinations,
\* whichever tier produced it and whatever the oracle's JSON contains.
C26_UrlAndDestinationsFromScript ==
    rpc = "returned" =>
        /\ result.scriptUrl = script.url
        /\ result.destinations = <<hostname(script.url)>>

\* The host is the registry key i or a subdomain of it.
C30_HostOfKey(i) ==
    LET h == hostname(script.url)
        k == KNOWN_SERVICES[i].key
    IN  h = k \/ EndsWith(h, <<".">> \o k)

\* C30: every registry entry is reachable: a script on the host of a key or
\* on a subdomain of it, not first-party and without framework marker, gets
\* the record of that key's own template, and no earlier key is a substring
\* of that key.
C30_EveryEntryReachable ==
    \A i \in 1..Len(KNOWN_SERVICES) :
        (rpc = "returned" /\ C17_FirstTier = "registry" /\ C30_HostOfKey(i)) =>
            /\ result = ServiceRecord(script.url, i)
            /\ \A j \in 1..(i - 1) :
                  ~Includes(KNOWN_SERVICES[i].key, KNOWN_SERVICES[j].key)

-----------------------------------------------------------------------------
(* ScriptAnalyzer.storeAnalysis                                            *)

\* storage.put(key, value) on a storage map.
Put(m, k, v) == [x \in DOMAIN m \cup {k} |-> IF x = k THEN v ELSE m[x]]

\* The key `analysis:${data.url}:${Date.now()}`.
AnalysisKey(data) == <<data.url, now>>

\* storeAnalysis in Durable Object d, when storage.put resolves: the value is
\* put under the key and the key is acknowledged.
storeAnalysis(d, data) ==
    /\ analysisStore' = [analysisStore EXCEPT ![d] = Put(@, AnalysisKey(data), data)]
    /\ storeAcks' = Append(storeAcks, AnalysisKey(data))
    /\ storeResp' = [status |-> 200, success |-> TRUE, key |-> AnalysisKey(data)]

\* storeAnalysis when storage.put throws: the catch block answers 500.
storeAnalysisFails ==
    /\ storeResp' = [status |-> 500, error |-> "Failed to store analysis"]
    /\ UNCHANGED <<analysisStore, storeAcks>>

-----------------------------------------------------------------------------
(* POST /analyze                                                           *)

\* The processing limit of thirdPartyScripts.slice(0, 10).
SliceLimit == 10

\* Most script requests a page load logs.
MaxScripts == 12

\* Most logged requests that are not for the tag-manager script.
MaxVaried == 2

\* The script the page requests first, any number of times.
PadUrl == URL_gtag

\* The scripts a page may request after that, MaxVaried of them at most.
VariedUrls == {URL_app, URL_cdn, URL_evil, URL_malformed}

\* The url field of the request body: absent or empty (<<>>), not a URL, a page.
RequestUrls == {<<>>, URL_malformed, PAGE_shop}

\* What env.AI.run does for a call issued by the batch.
BatchAIResponses ==
    {[shape |-> "response", text |-> <<"{", "full", "}">>],
     [shape |-> "response", text |-> <<"{", "bad", "}">>],
     [shape |-> "raw", text |-> <<"x">>]}

Min(a, b) == IF a < b THEN a ELSE b

\* scripts.filter(...): the URL parses and its host differs from pageDomain.
FilterThirdParty(ss, pd) ==
    SelectSeq(ss, LAMBDA s : URLParses(s.url) /\ hostname(s.url) # pd)

\* A batch without the slice: every third-party script is handed to
\* analyzeScript.
StartTasks_NoSlice(tp, pd) ==
    [i \in 1..Len(tp) |->
        LET s == SyncPart(tp[i].url, pd)
        IN  IF s.kind = "record" THEN [state |-> "done", rec |-> s.rec, ai |-> 0]
            ELSE IF s.kind = "ai" THEN [state |-> "pending", rec |-> NoRecord, ai |-> 1]
            ELSE [state |-> "rejected", rec |-> NoRecord, ai |-> 0]]

\* thirdPartyScripts.slice(0, 10).map(analyzeScript): every call runs to its
\* first await; a call that returned without awaiting is a resolved promise.
StartTasks(tp, pd) ==
    [i \in 1..Min(Len(tp), SliceLimit) |->
        LET s == SyncPart(tp[i].url, pd)
        IN  IF s.kind = "record" THEN [state |-> "done", rec |-> s.rec, ai |-> 0]
            ELSE IF s.kind = "ai" THEN [state |-> "pending", rec |-> NoRecord, ai |-> 1]
            ELSE [state |-> "rejected", rec |-> NoRecord, ai |-> 0]]

\* A join that collects the records as the calls complete: the calls that
\* never awaited first, then the oracle-bound calls in completion order.
BuildResult_CompletionOrder(url, ss, tp, ts) ==
    LET sync  == SelectSeq([i \in 1..Len(ts) |-> i], LAMBDA i : ts[i].ai = 0)
        order == sync \o completed
    IN  [success |-> TRUE,
         url |-> url,
         totalScripts |-> Len(ss),
         thirdPartyScripts |-> Len(tp),
         scripts |-> tp,
         analyses |-> [i \in 1..Len(ts) |-> ts[order[i]].rec]]

\* A result whose third-party count is the number of processed scripts.
BuildResult_ProcessedCount(url, ss, tp, ts) ==
    [success |-> TRUE,
     url |-> url,
     totalScripts |-> Len(ss),
     thirdPartyScripts |-> Len(ts),
     scripts |-> tp,
     analyses |-> [i \in 1..Len(ts) |-> ts[i].rec]]

\* The AnalysisResult built after the join.
BuildResult(url, ss, tp, ts) ==
    [success |-> TRUE,
     url |-> url,
     totalScripts |-> Len(ss),
     thirdPartyScripts |-> Len(tp),
     scripts |-> tp,
     analyses |-> [i \in 1..Len(ts) |-> ts[i].rec]]

AnalyzeInit ==
    /\ ResolverIdle
    /\ StoreEmpty
    /\ ChatIdle
    /\ reqUrl \in RequestUrls
    /\ apc = "start"
    /\ scripts = <<>>
    /\ loadSuccess = FALSE
    /\ thirdPartyScripts = <<>>
    /\ tasks = <<>>
    /\ completed = <<>>
    /\ aresp = NoResponse

\* The url is missing or empty: 400.
RejectMissingUrl ==
    /\ apc = "start"
    /\ reqUrl = <<>>
    /\ aresp' = [status |-> 400, error |-> "URL is required"]
    /\ apc' = "done"
    /\ UNCHANGED <<reqUrl, scripts, loadSuccess, thirdPartyScripts, tasks, completed,
                   resolverVars, storeVars, chatVars>>

\* A handler without the new URL(url) check: the browser is launched.
RejectInvalidUrl_Unchecked ==
    /\ apc = "start"
    /\ reqUrl # <<>>
    /\ ~URLParses(reqUrl)
    /\ apc' = "goto1"
    /\ UNCHANGED <<reqUrl, scripts, loadSuccess, thirdPartyScripts, tasks, completed,
                   aresp, resolverVars, storeVars, chatVars>>

\* new URL(url) throws: 400.
RejectInvalidUrl ==
    /\ apc = "start"
    /\ reqUrl # <<>>
    /\ ~URLParses(reqUrl)
    /\ aresp' = [status |-> 400, error |-> "Invalid URL format"]
    /\ apc' = "done"
    /\ UNCHANGED <<reqUrl, scripts, loadSuccess, thirdPartyScripts, tasks, completed,
                   resolverVars, storeVars, chatVars>>

\* The browser is launched and the first page.goto is under way.
LaunchBrowser ==
    /\ apc = "start"
    /\ reqUrl # <<>>
    /\ URLParses(reqUrl)
    /\ apc' = "goto1"
    /\ UNCHANGED <<reqUrl, scripts, loadSuccess, thirdPartyScripts, tasks, completed,
                   aresp, resolverVars, storeVars, chatVars>>

\* page.on("request"): a script request is logged while the page is open.
OnRequest(u) ==
    /\ apc \in {"goto1", "goto2", "settle"}
    /\ Len(scripts) < MaxScripts
    /\ LET varied == {i \in 1..Len(scripts) : scripts[i].url # PadUrl}
       IN  IF u = PadUrl THEN varied = {} ELSE Cardinality(varied) < MaxVaried
    /\ scripts' = Append(scripts, [url |-> u, timestamp |-> now])
    /\ UNCHANGED <<reqUrl, apc, loadSuccess, thirdPartyScripts, tasks, completed,
                   aresp, resolverVars, storeVars, chatVars>>

\* The networkidle2 load succeeded.
Goto1Succeeds ==
    /\ apc = "goto1"
    /\ loadSuccess' = TRUE
    /\ apc' = "settle"
    /\ UNCHANGED <<reqUrl, scripts, thirdPartyScripts, tasks, completed, aresp,
                   resolverVars, storeVars, chatVars>>

\* The networkidle2 load threw: fall back to domcontentloaded.
Goto1Fails ==
    /\ apc = "goto1"
    /\ apc' = "goto2"
    /\ UNCHANGED <<reqUrl, scripts, loadSuccess, thirdPartyScripts, tasks, completed,
                   aresp, resolverVars, storeVars, chatVars>>

\* The domcontentloaded load succeeded.
Goto2Succeeds ==
    /\ apc = "goto2"
    /\ loadSuccess' = TRUE
    /\ apc' = "settle"
    /\ UNCHANGED <<reqUrl, scripts, thirdPartyScripts, tasks, completed, aresp,
                   resolverVars, storeVars, chatVars>>

\* The fallback load threw as well: 504.
Goto2Fails ==
    /\ apc = "goto2"
    /\ aresp' = [status |-> 504, error |-> "Failed to load page"]
    /\ apc' = "done"
    /\ UNCHANGED <<reqUrl, scripts, loadSuccess, thirdPartyScripts, tasks, completed,
                   resolverVars, storeVars, chatVars>>

\* The waits are over: the browser is closed, the list is filtered and the
\* resolver calls are started.  A call that threw rejects Promise.all and the
\* outer catch answers 500.
StartAnalysis ==
    /\ apc = "settle"
    /\ thirdPartyScripts' = FilterThirdParty(scripts, hostname(reqUrl))
    /\ tasks' = StartTasks(thirdPartyScripts', hostname(reqUrl))
    /\ IF \E i \in 1..Len(tasks') : tasks'[i].state = "rejected"
       THEN /\ apc' = "done"
            /\ aresp' = [status |-> 500, error |-> "Analysis failed"]
       ELSE /\ apc' = "analyzing"
            /\ aresp' = aresp
    /\ UNCHANGED <<reqUrl, scripts, loadSuccess, completed, resolverVars, storeVars, chatVars>>

\* env.AI.run resolves for the i-th resolver call.
TaskAIReturns(i) ==
    /\ apc = "analyzing"
    /\ i \in 1..Len(tasks)
    /\ tasks[i].state = "pending"
    /\ \E r \in BatchAIResponses :
          tasks' = [tasks EXCEPT ![i] =
                       [state |-> "done",
                        rec |-> AfterAIReturn(thirdPartyScripts[i].url, r),
                        ai |-> @.ai]]
    /\ completed' = Append(completed, i)
    /\ UNCHANGED <<reqUrl, apc, scripts, loadSuccess, thirdPartyScripts, aresp,
                   resolverVars, storeVars, chatVars>>

\* A resolver without its catch block: the rejection of env.AI.run rejects
\* Promise.all and the outer catch of the handler answers 500.
TaskAIThrows_Propagates(i) ==
    /\ apc = "analyzing"
    /\ i \in 1..Len(tasks)
    /\ tasks[i].state = "pending"
    /\ tasks' = [tasks EXCEPT ![i] = [state |-> "rejected", rec |-> NoRecord, ai |-> @.ai]]
    /\ completed' = Append(completed, i)
    /\ apc' = "done"
    /\ aresp' = [status |-> 500, error |-> "Analysis failed"]
    /\ UNCHANGED <<reqUrl, scripts, loadSuccess, thirdPartyScripts,
                   resolverVars, storeVars, chatVars>>

\* env.AI.run rejects for the i-th resolver call.
TaskAIThrows(i) ==
    /\ apc = "analyzing"
    /\ i \in 1..Len(tasks)
    /\ tasks[i].state = "pending"
    /\ tasks' = [tasks EXCEPT ![i] =
                    [state |-> "done",
                     rec |-> AfterAIThrow(thirdPartyScripts[i].url),
                     ai |-> @.ai]]
    /\ completed' = Append(completed, i)
    /\ UNCHANGED <<reqUrl, apc, scripts, loadSuccess, thirdPartyScripts, aresp,
                   resolverVars, storeVars, chatVars>>

\* The result the handler builds once Promise.all has resolved.
AnalysisResultOf == BuildResult(reqUrl, scripts, thirdPartyScripts, tasks)

\* A join that goes on as soon as one of the calls has completed.
JoinAll_Any ==
    /\ apc = "analyzing"
    /\ \E i \in 1..Len(tasks) : tasks[i].state = "done"
    /\ apc' = "storing"
    /\ UNCHANGED <<reqUrl, scripts, loadSuccess, thirdPartyScripts, tasks, completed,
                   aresp, resolverVars, storeVars, chatVars>>

\* Promise.all resolved; the result is built and sent to the store.
JoinAll ==
    /\ apc = "analyzing"
    /\ \A i \in 1..Len(tasks) : tasks[i].state = "done"
    /\ apc' = "storing"
    /\ UNCHANGED <<reqUrl, scripts, loadSuccess, thirdPartyScripts, tasks, completed,
                   aresp, resolverVars, storeVars, chatVars>>

\* The store put the result; the handler answers with the result.
StoreSucceeds ==
    /\ apc = "storing"
    /\ storeAnalysis("global", AnalysisResultOf)
    /\ aresp' = [status |-> 200, body |-> AnalysisResultOf]
    /\ apc' = "done"
    /\ UNCHANGED <<reqUrl, scripts, loadSuccess, thirdPartyScripts, tasks, completed,
                   resolverVars, now, chatVars>>

\* The store answered 500; the handler does not read the answer.
StoreFails ==
    /\ apc = "storing"
    /\ storeAnalysisFails
    /\ aresp' = [status |-> 200, body |-> AnalysisResultOf]
    /\ apc' = "done"
    /\ UNCHANGED <<reqUrl, scripts, loadSuccess, thirdPartyScripts, tasks, completed,
                   resolverVars, now, chatVars>>

\* A handler without the inner try/catch: the outer catch answers 500.
StoreThrows_Uncaught ==
    /\ apc = "storing"
    /\ aresp' = [status |-> 500, error |-> "Analysis failed"]
    /\ apc' = "done"
    /\ UNCHANGED <<reqUrl, scripts, loadSuccess, thirdPartyScripts, tasks, completed,
                   resolverVars, storeVars, chatVars>>

\* stub.fetch threw; the inner catch logs it and the handler answers with the
\* result.
StoreThrows ==
    /\ apc = "storing"
    /\ aresp' = [status |-> 200, body |-> AnalysisResultOf]
    /\ apc' = "done"
    /\ UNCHANGED <<reqUrl, scripts, loadSuccess, thirdPartyScripts, tasks, completed,
                   resolverVars, storeVars, chatVars>>

AnalyzeNext ==
    \/ RejectMissingUrl
    \/ RejectInvalidUrl
    \/ LaunchBrowser
    \/ \E u \in VariedUrls \cup {PadUrl} : OnRequest(u)
    \/ Goto1Succeeds
    \/ Goto1Fails
    \/ Goto2Succeeds
    \/ Goto2Fails
    \/ StartAnalysis
    \/ \E i \in 1..SliceLimit : TaskAIReturns(i)
    \/ \E i \in 1..SliceLimit : TaskAIThrows(i)
    \/ JoinAll
    \/ StoreSucceeds
    \/ StoreFails
    \/ StoreThrows

SpecAnalyze == AnalyzeInit /\ [][AnalyzeNext]_vars

\* A step that ends an await of the handler: a page.goto resolves or throws,
\* an issued env.AI.run call resolves or rejects, Promise.all resolves, the
\* store call returns or throws.
AwaitEnds ==
    \/ LaunchBrowser
    \/ Goto1Succeeds
    \/ Goto1Fails
    \/ Goto2Succeeds
    \/ Goto2Fails
    \/ \E i \in 1..SliceLimit : TaskAIReturns(i)
    \/ \E i \in 1..SliceLimit : TaskAIThrows(i)
    \/ JoinAll
    \/ StoreSucceeds
    \/ StoreFails
    \/ StoreThrows

\* Every await of the handler ends, and the handler does not stay for ever in
\* the timer wait before browser.close(): StartAnalysis is enabled throughout
\* that wait and ends it, so the second conjunct is WF_vars(StartAnalysis).
AnalyzeFairness ==
    /\ WF_vars(AwaitEnds)
    /\ []<>(apc # "settle")

SpecAnalyzeFair == AnalyzeInit /\ [][AnalyzeNext]_vars /\ AnalyzeFairness

-----------------------------------------------------------------------------
(* Claims about POST /analyze                                              *)

\* The records analyzeScript can resolve with for script URL u on page pd.
C5_Outcomes(u, pd) ==
    LET s == SyncPart(u, pd)
    IN  IF s.kind = "record" THEN {s.rec}
        ELSE IF s.kind = "ai"
             THEN {AfterAIThrow(u)} \cup {AfterAIReturn(u, r) : r \in BatchAIResponses}
        ELSE {}

\* C5: the analyses array of a returned result has length
\* min(number of third-party scripts, 10), and analyses[i] is the record the
\* i-th resolver call produced for the i-th third-party script, whatever the
\* order in which the calls completed.
C5_AnalysesInDiscoveryOrder ==
    (apc = "done" /\ aresp.status = 200) =>
        LET a  == aresp.body.analyses
            tp == FilterThirdParty(scripts, hostname(reqUrl))
        IN  /\ Len(a) = Min(Len(tp), 10)
            /\ aresp.body.scripts = tp
            /\ \A i \in 1..Len(a) :
                  /\ a[i] = tasks[i].rec
                  /\ a[i] \in C5_Outcomes(tp[i].url, hostname(reqUrl))

\* Two oracle-bound calls completed in the reverse of their discovery order
\* and their records differ.
C5_Witness ==
    /\ apc = "done"
    /\ aresp.status = 200
    /\ Len(completed) = 2
    /\ completed[1] > completed[2]
    /\ aresp.body.analyses[completed[1]] # aresp.body.analyses[completed[2]]
    /\ aresp.body.analyses[completed[1]].scriptUrl = thirdPartyScripts[completed[1]].url

\* More than ten third-party scripts were found and ten were analysed.
C5_TruncationReached ==
    /\ apc = "done"
    /\ aresp.status = 200
    /\ Len(thirdPartyScripts) > 10
    /\ Len(aresp.body.analyses) = 10

\* C11: once page load and classification have succeeded, the handler answers
\* 200 with the AnalysisResult it built whether the store put it, answered
\* with an error or the store call threw.
C11_StorageFailureAbsorbed ==
    [][ (apc = "storing" /\ apc' = "done")
            => aresp' = [status |-> 200, body |-> AnalysisResultOf] ]_vars

\* The store call threw: nothing was stored, no store answer exists and the
\* caller has the result with its analyses.
C11_Witness ==
    /\ apc = "done"
    /\ aresp.status = 200
    /\ aresp.body.success
    /\ Len(aresp.body.analyses) >= 1
    /\ storeResp = NoResponse
    /\ analysisStore["global"] = EmptyMap

\* The store answered 500 and the caller has the result.
C11_StoreErrorReached ==
    /\ apc = "done"
    /\ aresp.status = 200
    /\ storeResp.status = 500
    /\ analysisStore["global"] = EmptyMap

\* C14: in every returned AnalysisResult thirdPartyScripts counts the full
\* third-party set, totalScripts counts all discovered scripts, and
\* totalScripts >= thirdPartyScripts >= len(analyses), len(analyses) <= 10.
C14_CountsOfFullSets ==
    (apc = "done" /\ aresp.status = 200) =>
        LET b == aresp.body
        IN  /\ b.totalScripts = Len(scripts)
            /\ b.thirdPartyScripts =
                   Cardinality({i \in 1..Len(scripts) :
                                   /\ URLParses(scripts[i].url)
                                   /\ hostname(scripts[i].url) # hostname(reqUrl)})
            /\ b.totalScripts >= b.thirdPartyScripts
            /\ b.thirdPartyScripts >= Len(b.analyses)
            /\ Len(b.analyses) <= 10

\* Twelve scripts were discovered, eleven of them third-party, ten analysed.
C14_Witness ==
    /\ apc = "done"
    /\ aresp.status = 200
    /\ aresp.body.totalScripts > aresp.body.thirdPartyScripts
    /\ aresp.body.thirdPartyScripts > Len(aresp.body.analyses)
    /\ Len(aresp.body.analyses) = 10

\* C15: a request whose url is missing or does not parse is answered 400
\* straight away: no page load is started, no script is logged, no resolver
\* or oracle call is made and nothing is written to the store.
C15_ValidationErrorOnly ==
    (reqUrl = <<>> \/ ~URLParses(reqUrl)) =>
        /\ apc \in {"start", "done"}
        /\ apc = "done" => (aresp.status = 400 /\ DOMAIN aresp = {"status", "error"})
        /\ scripts = <<>>
        /\ loadSuccess = FALSE
        /\ thirdPartyScripts = <<>>
        /\ tasks = <<>>
        /\ completed = <<>>
        /\ aiCalls = 0
        /\ analysisStore = [d \in DONames |-> EmptyMap]
        /\ storeAcks = <<>>
        /\ storeResp = NoResponse

\* A request with a url that does not parse was answered 400.
C15_Witness ==
    /\ reqUrl = URL_malformed
    /\ apc = "done"
    /\ aresp = [status |-> 400, error |-> "Invalid URL format"]
    /\ analysisStore["global"] = EmptyMap

\* A request without url was answered 400.
C15_MissingUrlReached ==
    /\ reqUrl = <<>>
    /\ apc = "done"
    /\ aresp = [status |-> 400, error |-> "URL is required"]

\* C16: when the page load and every issued oracle call end, a request with
\* a valid URL ends, and one whose page loaded ends with an AnalysisResult,
\* whatever the resolver calls and the oracle calls did.
C16_PipelineTotal ==
    /\ (apc = "goto1") ~> (apc = "done")
    /\ loadSuccess ~> (apc = "done" /\ aresp.status = 200 /\ aresp.body.success)

\* A request ended with a result in which an oracle failure was absorbed into
\* the fallback record.
C16_Witness ==
    /\ apc = "done"
    /\ loadSuccess
    /\ aresp.status = 200
    /\ \E i \in 1..Len(tasks) :
           /\ tasks[i].ai = 1
           /\ aresp.body.analyses[i] = FallbackRecord(thirdPartyScripts[i].url)

\* The first-party test accepts host h on a page of host pd: without a
\* leading "www", one is the other or a subdomain of the other.
C19_FirstParty(h, pd) ==
    C2_Under(C2_Base(h), C2_Base(pd)) \/ C2_Under(C2_Base(pd), C2_Base(h))

\* C19: no script in the third-party set that analyze builds, counts, lists
\* and hands to the resolver is accepted by the first-party test, and no
\* script with a malformed URL is in it.
C19_ThirdPartyExcludesFirstParty ==
    \A i \in 1..Len(thirdPartyScripts) :
        /\ URLParses(thirdPartyScripts[i].url)
        /\ ~C19_FirstParty(hostname(thirdPartyScripts[i].url), hostname(reqUrl))

\* Some resolver call of the batch has not completed.
C20_SomePending == \E i \in 1..Len(tasks) : tasks[i].state = "pending"

\* C20: while a resolver call of the batch is pending the handler waits in
\* the join: no result has been stored or returned, and the request is not
\* completed.
C20_AllOrNothingJoin ==
    C20_SomePending =>
        /\ apc = "analyzing"
        /\ aresp = NoResponse
        /\ analysisStore = [d \in DONames |-> EmptyMap]
        /\ storeAcks = <<>>
        /\ storeResp = NoResponse

\* One oracle-bound call has completed, another is pending and the handler
\* is waiting.
C20_Witness ==
    /\ C20_SomePending
    /\ Len(completed) = 1
    /\ tasks[completed[1]].state = "done"
    /\ apc = "analyzing"
    /\ aresp = NoResponse

-----------------------------------------------------------------------------
(* The analysis log of the "global" Durable Object                         *)

\* Latest value of Date.now().
MaxClock == 2

\* Most storeAnalysis requests of a run.
MaxStores == 3

\* The results sent to the store: two pages, each with and without a script.
LogResults ==
    {BuildResult(u, ss, ss, [i \in 1..Len(ss) |-> [rec |-> FallbackRecord(ss[i].url)]]) :
        u \in {PAGE_shop, PAGE_www},
        ss \in {<<>>, <<[url |-> URL_evil, timestamp |-> 0]>>}}

LogInit ==
    /\ ResolverIdle
    /\ AnalyzeIdle
    /\ StoreEmpty
    /\ ChatIdle

\* Time passes.
Tick ==
    /\ now < MaxClock
    /\ now' = now + 1
    /\ UNCHANGED <<analysisStore, storeAcks, storeResp, resolverVars, analyzeVars, chatVars>>

\* POST /store: the result is put and the key acknowledged.
StoreAnalysisRequest(data) ==
    /\ Len(storeAcks) < MaxStores
    /\ storeAnalysis("global", data)
    /\ UNCHANGED <<now, resolverVars, analyzeVars, chatVars>>

\* POST /store: storage.put throws and the handler answers 500.
StoreAnalysisPutThrows(data) ==
    /\ Len(storeAcks) < MaxStores
    /\ storeAnalysisFails
    /\ UNCHANGED <<now, resolverVars, analyzeVars, chatVars>>

LogNext ==
    \/ Tick
    \/ \E data \in LogResults : StoreAnalysisRequest(data)
    \/ \E data \in LogResults : StoreAnalysisPutThrows(data)

SpecLog == LogInit /\ [][LogNext]_vars

\* C6: after n successful storeAnalysis calls, also for the same URL and from
\* concurrent requests, the log holds n distinct entries, one per call.
C6_OneEntryPerStore ==
    Cardinality(DOMAIN analysisStore["global"]) = Len(storeAcks)

-----------------------------------------------------------------------------
(* handleChatMessage and buildAnalysisContext                              *)

\* An AnalysisResult whose one record is the fallback record.
CtxGood ==
    BuildResult(PAGE_shop, <<[url |-> URL_evil, timestamp |-> 0]>>,
                <<[url |-> URL_evil, timestamp |-> 0]>>,
                <<[rec |-> FallbackRecord(URL_evil)]>>)

\* An AnalysisResult whose one record was built from the oracle's JSON and
\* has no dataCollected field.
CtxPartial ==
    BuildResult(PAGE_shop, <<[url |-> URL_evil, timestamp |-> 0]>>,
                <<[url |-> URL_evil, timestamp |-> 0]>>,
                <<[rec |-> AfterAIReturn(URL_evil,
                                         [shape |-> "response", text |-> <<"{", "bad", "}">>])]>>)

Snapshots == {CtxGood, CtxPartial}

\* buildAnalysisContext(analysisData): the marker, the rendered context, or a
\* TypeError when a record has no dataCollected to join.
buildAnalysisContext(analysisData) ==
    IF analysisData = NoAnalysis \/ "analyses" \notin DOMAIN analysisData
    THEN [kind |-> "marker"]
    ELSE LET analyses == analysisData.analyses
         IN  IF \E i \in 1..Len(analyses) : "dataCollected" \notin DOMAIN analyses[i]
             THEN [kind |-> "throw"]
             ELSE [kind |-> "context",
                   url |-> analysisData.url,
                   totalScripts |-> analysisData.totalScripts,
                   thirdPartyScripts |-> analysisData.thirdPartyScripts,
                   blocks |-> [i \in 1..Len(analyses) |->
                       [scriptName |-> OrDefault(analyses[i], "scriptName", "undefined"),
                        scriptUrl |-> OrDefault(analyses[i], "scriptUrl", <<>>),
                        purpose |-> OrDefault(analyses[i], "purpose", "undefined"),
                        riskLevel |-> OrDefault(analyses[i], "riskLevel", "undefined"),
                        dataCollected |-> analyses[i].dataCollected,
                        recommendation |-> OrDefault(analyses[i], "recommendation", "undefined")]]]


\* reply.length > 1800
IsLong(t) == t = "Long answer cut off"

\* reply.trim().endsWith(".")
EndsWithPeriod(t) == t = "Short answer."

\* What env.AI.run resolves with for the chat call.
ChatAIResponses ==
    {[shape |-> "response", text |-> "Short answer."]}

\* The catch block's reply.
Apology ==
    [text |-> "Sorry, I encountered an error processing your question. Please try again.",
     truncated |-> FALSE]

\* The reply handleChatMessage returns after env.AI.run resolved with r; a
\* long reply that does not end with a period loses its last word and gets
\* the truncation notice.
ReplyOf(r) ==
    LET t == IF r.text # "" THEN r.text
             ELSE IF r.shape = "raw" THEN "Sorry, I could not generate a response."
             ELSE "[object Object]"
    IN  [text |-> t, truncated |-> IsLong(t) /\ ~EndsWithPeriod(t)]

-----------------------------------------------------------------------------
(* Chat sessions of the ScriptAnalyzer Durable Objects and POST /chat      *)

SessionIds == {"s1", "s2"}

\* The session the chatting client uses; the other session belongs to a
\* client that only initialises and reads it.
ChatSessionIds == {"s1"}

\* storage.get(`chat:${sessionId}`) in Durable Object d.
GetSession(d, sessionId) ==
    IF sessionId \in DOMAIN chatStore[d] THEN chatStore[d][sessionId] ELSE NoSession

\* A getChatHistory that answers 404 for a session that is not stored.
getChatHistory_Strict(d, sessionId) ==
    IF sessionId = ""
    THEN [status |-> 400, error |-> "Session ID required"]
    ELSE IF GetSession(d, sessionId) = NoSession
    THEN [status |-> 404, error |-> "Session not found"]
    ELSE [status |-> 200,
          messages |-> GetSession(d, sessionId).messages,
          analysisData |-> GetSession(d, sessionId).analysisData]

\* The response getChatHistory computes in Durable Object d; a missing or
\* empty sessionId parameter is "".
getChatHistory(d, sessionId) ==
    IF sessionId = ""
    THEN [status |-> 400, error |-> "Session ID required"]
    ELSE IF GetSession(d, sessionId) = NoSession
    THEN [status |-> 200, messages |-> <<>>, analysisData |-> NoAnalysis]
    ELSE [status |-> 200,
          messages |-> GetSession(d, sessionId).messages,
          analysisData |-> GetSession(d, sessionId).analysisData]

\* An initChatSession that keeps the messages of the session it replaces.
NewSession_KeepMessages(sessionId, analysisData) ==
    [sessionId |-> sessionId,
     messages |-> IF GetSession(sessionId, sessionId) = NoSession THEN <<>>
                  ELSE GetSession(sessionId, sessionId).messages,
     analysisData |-> analysisData,
     createdAt |-> now,
     lastActive |-> now]

\* The session initChatSession puts.
NewSession(sessionId, analysisData) ==
    [sessionId |-> sessionId,
     messages |-> <<>>,
     analysisData |-> analysisData,
     createdAt |-> now,
     lastActive |-> now]

\* A chat message as the route builds it.
ChatMessage(role, content) == [role |-> role, content |-> content, timestamp |-> now]

\* The text of a request as message content.
Content(text) == [text |-> text, truncated |-> FALSE]

\* Request q is between its first step and its response.
InFlight(q) == chat[q].pc \notin {"idle", "done"}

\* The chat requests after an operation on session sessionId by request q
\* (0: not a chat request): every other request in flight on that session
\* has been disturbed.
Disturb(c, q, sessionId) ==
    [p \in ChatReqs |->
        IF p # q /\ c[p].pc \notin {"idle", "done"} /\ c[p].sessionId = sessionId
        THEN [c[p] EXCEPT !.disturbed = TRUE]
        ELSE c[p]]

ChatInit ==
    /\ ResolverIdle
    /\ AnalyzeIdle
    /\ StoreEmpty
    /\ ChatIdle

\* The Durable Object that owns a session id; a request without a session
\* id can only be sent to some other object.
ObjectOf(sessionId) == IF sessionId = "" THEN "global" ELSE sessionId

\* GET /chat/history on the Durable Object of the session.
GetChatHistory(sessionId) ==
    /\ doResp' = [op |-> "history", d |-> ObjectOf(sessionId), sessionId |-> sessionId,
                  resp |-> getChatHistory(ObjectOf(sessionId), sessionId)]
    /\ UNCHANGED <<chatStore, chat, resolverVars, analyzeVars, storeVars>>

\* An init that keeps all sessions under one key: every stored session is
\* replaced together with the one addressed.
InitChatSession_SharedKey(sessionId, analysisData) ==
    /\ chatStore' = [d \in DONames |->
                        IF d = sessionId \/ d \in DOMAIN chatStore[d]
                        THEN Put(chatStore[d], d, NewSession(d, analysisData))
                        ELSE chatStore[d]]
    /\ doResp' = [op |-> "init", d |-> sessionId, sessionId |-> sessionId,
                  analysisData |-> analysisData,
                  resp |-> [status |-> 200, success |-> TRUE],
                  discarded |-> IF GetSession(sessionId, sessionId) = NoSession THEN 0
                                ELSE Len(GetSession(sessionId, sessionId).messages)]
    /\ chat' = Disturb(chat, 0, sessionId)
    /\ UNCHANGED <<resolverVars, analyzeVars, storeVars>>

\* POST /chat/init: the session is replaced by a fresh one.
InitChatSession(sessionId, analysisData) ==
    /\ chatStore' = [chatStore EXCEPT ![sessionId] =
                        Put(@, sessionId, NewSession(sessionId, analysisData))]
    /\ doResp' = [op |-> "init", d |-> sessionId, sessionId |-> sessionId,
                  analysisData |-> analysisData,
                  resp |-> [status |-> 200, success |-> TRUE],
                  discarded |-> IF GetSession(sessionId, sessionId) = NoSession THEN 0
                                ELSE Len(GetSession(sessionId, sessionId).messages)]
    /\ chat' = Disturb(chat, 0, sessionId)
    /\ UNCHANGED <<resolverVars, analyzeVars, storeVars>>

\* POST /chat/init: storage.put throws, the Durable Object answers 500 and the
\* route, which does not read the answer, reports success.
InitChatSessionPutThrows(sessionId, analysisData) ==
    /\ doResp' = [op |-> "init", d |-> sessionId, sessionId |-> sessionId,
                  analysisData |-> analysisData,
                  resp |-> [status |-> 500, error |-> "Failed to init chat session"],
                  discarded |-> 0]
    /\ UNCHANGED <<chatStore, chat, resolverVars, analyzeVars, storeVars>>

\* POST /chat with an empty message or session id: 400.
ChatRejected(q, message, sessionId) ==
    /\ chat[q].pc = "idle"
    /\ message = "" \/ sessionId = ""
    /\ chat' = [chat EXCEPT ![q] =
                   [@ EXCEPT !.pc = "done",
                             !.resp = [status |-> 400,
                                       error |-> "Message and session ID required"]]]
    /\ doResp' = NoDOResponse
    /\ UNCHANGED <<chatStore, resolverVars, analyzeVars, storeVars>>

\* POST /chat: handleChatMessage builds the context and calls the oracle, or
\* returns the apology when building the context throws.
ChatStart(q, message, sessionId, ctx) ==
    /\ chat[q].pc = "idle"
    /\ message # ""
    /\ sessionId # ""
    /\ LET threw == buildAnalysisContext(ctx).kind = "throw"
           s     == GetSession(sessionId, sessionId)
       IN  chat' = [chat EXCEPT ![q] =
                       [@ EXCEPT !.pc = IF threw THEN "userGet" ELSE "ai",
                                 !.message = message,
                                 !.sessionId = sessionId,
                                 !.prompt = IF threw THEN NoContext
                                            ELSE buildAnalysisContext(ctx),
                                 !.reply = IF threw THEN Apology ELSE NoReply,
                                 !.asked = ~threw,
                                 !.failed = threw,
                                 !.existed = s # NoSession,
                                 !.base = IF s = NoSession THEN <<>> ELSE s.messages]]
    /\ doResp' = NoDOResponse
    /\ UNCHANGED <<chatStore, resolverVars, analyzeVars, storeVars>>

\* env.AI.run resolves for the chat call.
ChatAIReturns(q) ==
    /\ chat[q].pc = "ai"
    /\ \E r \in ChatAIResponses :
          chat' = [chat EXCEPT ![q] = [@ EXCEPT !.pc = "userGet", !.prompt = NoContext,
                                                  !.reply = ReplyOf(r)]]
    /\ doResp' = NoDOResponse
    /\ UNCHANGED <<chatStore, resolverVars, analyzeVars, storeVars>>

\* A catch block that returns the text for an empty answer.
ChatAIThrows_DefaultReply(q) ==
    /\ chat[q].pc = "ai"
    /\ chat' = [chat EXCEPT ![q] =
                   [@ EXCEPT !.pc = "userGet",
                             !.prompt = NoContext,
                             !.reply = [text |-> "Sorry, I could not generate a response.",
                                        truncated |-> FALSE],
                             !.failed = TRUE]]
    /\ doResp' = NoDOResponse
    /\ UNCHANGED <<chatStore, resolverVars, analyzeVars, storeVars>>

\* env.AI.run rejects for the chat call: the catch block returns the apology.
ChatAIThrows(q) ==
    /\ chat[q].pc = "ai"
    /\ chat' = [chat EXCEPT ![q] =
                   [@ EXCEPT !.pc = "userGet", !.prompt = NoContext,
                             !.reply = Apology, !.failed = TRUE]]
    /\ doResp' = NoDOResponse
    /\ UNCHANGED <<chatStore, resolverVars, analyzeVars, storeVars>>


\* The turn a store position belongs to, and the position after that turn.
TurnOf(pc) == IF pc \in {"userGet", "userPut"} THEN "user" ELSE "assistant"
AfterTurn(pc) == IF pc \in {"userGet", "userPut"} THEN "asstGet" ELSE "respond"

\* The request with the status of the turn at position pc set to st.
WithStatus(c, pc, st) ==
    IF TurnOf(pc) = "user" THEN [c EXCEPT !.userStatus = st] ELSE [c EXCEPT !.asstStatus = st]

\* The message the route sends for the turn at position pc of request c.
TurnMessage(c, pc) ==
    IF TurnOf(pc) = "user" THEN ChatMessage("user", Content(c.message))
    ELSE ChatMessage("assistant", c.reply)

\* A storeChatMessage that stores the new message in place of the list.
StoreGet_Overwrite(q) ==
    /\ chat[q].pc \in {"userGet", "asstGet"}
    /\ LET c  == chat[q]
           s  == GetSession(c.sessionId, c.sessionId)
       IN  IF s = NoSession
           THEN chat' = [chat EXCEPT ![q] =
                            [WithStatus(c, c.pc, 404) EXCEPT !.pc = AfterTurn(c.pc)]]
           ELSE chat' = [chat EXCEPT ![q] =
                            [c EXCEPT !.pc = IF c.pc = "userGet" THEN "userPut" ELSE "asstPut",
                                      !.session =
                                          [s EXCEPT !.messages = <<TurnMessage(c, c.pc)>>,
                                                    !.lastActive = now]]]
    /\ doResp' = NoDOResponse
    /\ UNCHANGED <<chatStore, resolverVars, analyzeVars, storeVars>>

\* storeChatMessage, up to and including storage.get: 404 when there is no
\* session; otherwise the message is pushed onto the session that was read
\* and lastActive is set, ready to be put.
StoreGet(q) ==
    /\ chat[q].pc \in {"userGet", "asstGet"}
    /\ LET c  == chat[q]
           s  == GetSession(c.sessionId, c.sessionId)
       IN  IF s = NoSession
           THEN chat' = [chat EXCEPT ![q] =
                            [WithStatus(c, c.pc, 404) EXCEPT !.pc = AfterTurn(c.pc)]]
           ELSE chat' = [chat EXCEPT ![q] =
                            [c EXCEPT !.pc = IF c.pc = "userGet" THEN "userPut" ELSE "asstPut",
                                      !.session =
                                          [s EXCEPT !.messages = Append(@, TurnMessage(c, c.pc)),
                                                    !.lastActive = now]]]
    /\ doResp' = NoDOResponse
    /\ UNCHANGED <<chatStore, resolverVars, analyzeVars, storeVars>>

\* storeChatMessage: storage.put of the session with the pushed message.
StorePut(q) ==
    /\ chat[q].pc \in {"userPut", "asstPut"}
    /\ LET c == chat[q]
       IN  /\ chatStore' = [chatStore EXCEPT ![c.sessionId] = Put(@, c.sessionId, c.session)]
           /\ chat' = Disturb([chat EXCEPT ![q] =
                                  [WithStatus(c, c.pc, 200) EXCEPT !.pc = AfterTurn(c.pc),
                                                                   !.session = NoSession]],
                              q, c.sessionId)
    /\ doResp' = NoDOResponse
    /\ UNCHANGED <<resolverVars, analyzeVars, storeVars>>

\* storeChatMessage: storage.put throws and the catch block answers 500; the
\* route does not read the answer.
StorePutThrows(q) ==
    /\ chat[q].pc \in {"userPut", "asstPut"}
    /\ LET c == chat[q]
       IN  chat' = [chat EXCEPT ![q] =
                       [WithStatus(c, c.pc, 500) EXCEPT !.pc = AfterTurn(c.pc),
                                                        !.session = NoSession]]
    /\ doResp' = NoDOResponse
    /\ UNCHANGED <<chatStore, resolverVars, analyzeVars, storeVars>>

\* stub.fetch itself throws: the route's catch answers 500.
ChatStoreThrows(q) ==
    /\ chat[q].pc \in {"userGet", "asstGet"}
    /\ chat' = [chat EXCEPT ![q] =
                   [IdleChat EXCEPT !.pc = "done",
                                    !.resp = [status |-> 500, error |-> "Chat failed"]]]
    /\ doResp' = NoDOResponse
    /\ UNCHANGED <<chatStore, resolverVars, analyzeVars, storeVars>>

\* Both store calls returned: the route answers with the reply.
ChatRespond(q) ==
    /\ chat[q].pc = "respond"
    /\ chat' = [chat EXCEPT ![q] =
                   [IdleChat EXCEPT !.pc = "done",
                                    !.resp = [status |-> 200, reply |-> chat[q].reply,
                                              timestamp |-> now]]]
    /\ doResp' = NoDOResponse
    /\ UNCHANGED <<chatStore, resolverVars, analyzeVars, storeVars>>

\* The message texts of chat requests.
Messages == {"Is it safe?"}

\* The client sends a chat only when no other chat is in flight (the chat
\* input of the page is disabled while a reply is awaited).
OneAtATime(q) == \A p \in ChatReqs \ {q} : ~InFlight(p)

ChatNext ==
    \/ \E sessionId \in SessionIds \cup {""} : GetChatHistory(sessionId)
    \/ \E sessionId \in SessionIds, a \in Snapshots : InitChatSession(sessionId, a)
    \/ \E sessionId \in SessionIds, a \in Snapshots : InitChatSessionPutThrows(sessionId, a)
    \/ \E q \in ChatReqs, m \in Messages \cup {""}, sessionId \in ChatSessionIds \cup {""} :
          OneAtATime(q) /\ ChatRejected(q, m, sessionId)
    \/ \E q \in ChatReqs, m \in Messages, sessionId \in ChatSessionIds,
          ctx \in Snapshots \cup {NoAnalysis} :
          OneAtATime(q) /\ ChatStart(q, m, sessionId, ctx)
    \/ \E q \in ChatReqs : ChatAIReturns(q)
    \/ \E q \in ChatReqs : ChatAIThrows(q)
    \/ \E q \in ChatReqs : StoreGet(q)
    \/ \E q \in ChatReqs : StorePut(q)
    \/ \E q \in ChatReqs : StorePutThrows(q)
    \/ \E q \in ChatReqs : ChatStoreThrows(q)
    \/ \E q \in ChatReqs : ChatRespond(q)

SpecChat == ChatInit /\ [][ChatNext]_vars

-----------------------------------------------------------------------------
(* Claims about the chat sessions and POST /chat                           *)

\* The messages stored for a session, <<>> when it is not stored.
StoredMessages(sessionId) ==
    IF GetSession(sessionId, sessionId) = NoSession THEN <<>>
    ELSE GetSession(sessionId, sessionId).messages

\* Request q performs the storage read of one of its appendMessage calls.
C7_AppendReads(q) ==
    /\ chat[q].pc \in {"userGet", "asstGet"}
    /\ chat'[q].pc \notin {chat[q].pc, "done"}

\* The status the route received for the call request q was making.
C7_StatusAfter(q) ==
    IF chat[q].pc = "userGet" THEN chat'[q].userStatus ELSE chat'[q].asstStatus

\* C7: for a session id without a stored session, appendMessage answers 404
\* (session not found) and creates no session, getHistory answers with an
\* empty message list and no analysis, and neither changes the storage.
C7_UnknownSession ==
    [][ /\ \A q \in ChatReqs :
              (C7_AppendReads(q) /\ GetSession(chat[q].sessionId, chat[q].sessionId) = NoSession)
                  => /\ C7_StatusAfter(q) = 404
                     /\ chat'[q].pc = AfterTurn(chat[q].pc)
                     /\ chatStore' = chatStore
        /\ (doResp'.op = "history" /\ doResp'.sessionId # ""
               /\ GetSession(doResp'.d, doResp'.sessionId) = NoSession)
              => /\ doResp'.resp = [status |-> 200, messages |-> <<>>,
                                    analysisData |-> NoAnalysis]
                 /\ chatStore' = chatStore
      ]_vars

\* An append was answered 404 and the history of the same, still unknown
\* session was then read.
C7_Witness ==
    \E q \in ChatReqs :
        /\ chat[q].userStatus = 404
        /\ GetSession(chat[q].sessionId, chat[q].sessionId) = NoSession
        /\ doResp.op = "history"
        /\ doResp.sessionId = chat[q].sessionId
        /\ doResp.resp.status = 200
        /\ doResp.resp.messages = <<>>

\* C8: right after initChatSession(id, snapshot) succeeded, whatever was
\* stored for id before, getHistory(id) answers with an empty message list
\* and exactly that snapshot.
C8_InitResets ==
    (doResp.op = "init" /\ doResp.resp.status = 200) =>
        getChatHistory(doResp.d, doResp.sessionId) =
            [status |-> 200, messages |-> <<>>, analysisData |-> doResp.analysisData]

\* An init replaced a session that held messages and another snapshot.
C8_Witness ==
    /\ doResp.op = "init"
    /\ doResp.resp.status = 200
    /\ doResp.discarded >= 2
    /\ doResp.analysisData = CtxPartial
    /\ StoredMessages(doResp.sessionId) = <<>>

\* The stored list is the list at the start of request q followed by q's
\* user message and then the assistant message with q's reply.
C9_ExtendedByTwo(q) ==
    LET msgs == StoredMessages(chat[q].sessionId)
        n    == Len(chat[q].base)
    IN  /\ Len(msgs) = n + 2
        /\ SubSeq(msgs, 1, n) = chat[q].base
        /\ msgs[n + 1].role = "user"
        /\ msgs[n + 1].content = Content(chat[q].message)
        /\ msgs[n + 2].role = "assistant"
        /\ msgs[n + 2].content = chat[q].reply

\* Request q is about to answer 200 with its reply, its session existed when
\* it started and nothing else has written to that session since.
C9_SuccessfulUndisturbed(q) ==
    /\ chat[q].pc = "respond"
    /\ chat[q].existed
    /\ ~chat[q].disturbed

C10_ApologyStored(q) ==
    LET msgs == StoredMessages(chat[q].sessionId)
    IN  /\ msgs # <<>>
        /\ msgs[Len(msgs)].role = "assistant"
        /\ msgs[Len(msgs)].content = Apology

C12_SessionNotFoundSurfaces ==
    [][ \A q \in ChatReqs :
            (chat[q].pc = "respond" /\ ~chat[q].existed
                /\ (chat[q].userStatus = 404 \/ chat[q].asstStatus = 404))
               => chat'[q].resp.status # 200 ]_vars

\* C13: the context in the prompt of a chat call on an initialised session is
\* the context built from the snapshot that the latest initChatSession stored
\* for that session.
C13_ContextFromStoredSnapshot ==
    \A q \in ChatReqs :
        (chat[q].pc = "ai" /\ chat[q].existed /\ ~chat[q].disturbed)
            => chat[q].prompt =
                   buildAnalysisContext(GetSession(chat[q].sessionId, chat[q].sessionId).analysisData)

\* The step is an operation addressed to session B that writes: an init of B
\* or the storage write of an append to B.
C21_WritesTo(B) ==
    \/ doResp'.op = "init" /\ doResp'.sessionId = B
    \/ \E q \in ChatReqs :
          /\ chat[q].pc \in {"userPut", "asstPut"}
          /\ chat[q].sessionId = B
          /\ chat'[q].pc = AfterTurn(chat[q].pc)

\* C21: the stored state of a session changes only in a step of an operation
\* addressed to that session, nothing else is written to the storage of the
\* session objects, and no session operation changes the analysis log.
C21_SessionsIndependent ==
    [][ /\ \A d \in DONames :
              chatStore'[d] # chatStore[d]
                  => /\ d \in SessionIds
                     /\ C21_WritesTo(d)
                     /\ \A k \in DOMAIN chatStore[d] \cup DOMAIN chatStore'[d] : k = d
        /\ analysisStore' = analysisStore
        /\ storeAcks' = storeAcks ]_vars

\* Session s2 was just initialised while a chat on s1 is between its two
\* appends, and s1 still holds its messages and its own snapshot.
C21_Witness ==
    /\ doResp.op = "init"
    /\ doResp.sessionId = "s2"
    /\ doResp.resp.status = 200
    /\ \E q \in ChatReqs : chat[q].pc = "asstGet" /\ chat[q].sessionId = "s1"
                              /\ chat[q].userStatus = 200
    /\ Len(StoredMessages("s1")) >= 1
    /\ GetSession("s1", "s1").analysisData # GetSession("s2", "s2").analysisData


\* C24: buildAnalysisContext returns the marker for an absent analysis, and
\* for every AnalysisResult that POST /analyze returns it returns, without
\* error, the text with the page URL, the two counts and one block per record
\* of analyses, in the order of analyses.
C24_ContextForEveryResult ==
    /\ buildAnalysisContext(NoAnalysis).kind = "marker"
    /\ (apc = "done" /\ aresp.status = 200) =>
          LET b == aresp.body
              c == buildAnalysisContext(b)
          IN  /\ c.kind = "context"
              /\ c.url = b.url
              /\ c.totalScripts = b.totalScripts
              /\ c.thirdPartyScripts = b.thirdPartyScripts
              /\ Len(c.blocks) = Len(b.analyses)
              /\ \A i \in 1..Len(b.analyses) :
                    c.blocks[i].dataCollected = b.analyses[i].dataCollected


-----------------------------------------------------------------------------
(* POST /chat requests that overlap on one session                         *)

\* The message text of each request: the two requests are told apart by it.
OverlapMessage(q) == IF q = 1 THEN "Is it safe?" ELSE "Who gets my data?"

\* Two POST /chat requests on session s1 with nothing to keep them apart
\* (the route is open to any client), POST /chat/init on either session and
\* reads of the history. The oracle answers the first request and fails for
\* the second, so that the two replies differ as well.
OverlapNext ==
    \/ \E sessionId \in SessionIds : GetChatHistory(sessionId)
    \/ \E sessionId \in SessionIds, a \in Snapshots : InitChatSession(sessionId, a)
    \/ \E q \in ChatReqs : ChatStart(q, OverlapMessage(q), "s1", CtxGood)
    \/ ChatAIReturns(1)
    \/ ChatAIThrows(2)
    \/ \E q \in ChatReqs : StoreGet(q)
    \/ \E q \in ChatReqs : StorePut(q)
    \/ \E q \in ChatReqs : ChatRespond(q)

SpecOverlap == ChatInit /\ [][OverlapNext]_vars

\* Sequence a is a prefix of sequence b.
C25_IsPrefix(a, b) == Len(a) <= Len(b) /\ SubSeq(b, 1, Len(a)) = a

C27_Acked(q, turn) ==
    IF turn = "user" THEN chat[q].userStatus = 200 ELSE chat[q].asstStatus = 200

\* The message of that append is stored exactly once in q's session.
C27_Present(q, turn) ==
    LET msgs == StoredMessages(chat[q].sessionId)
        m    == TurnMessage(chat[q], IF turn = "user" THEN "userGet" ELSE "asstGet")
    IN  Cardinality({i \in 1..Len(msgs) : msgs[i] = m}) = 1

C28_ReplyTo(content) ==
    IF content = Content(OverlapMessage(1))
    THEN ReplyOf(CHOOSE r \in ChatAIResponses : TRUE)
    ELSE Apology

\* C28: the stored messages form user/assistant pairs: a user message that is
\* not the last one is directly followed by the assistant reply to it, and
\* every assistant message has its user message directly before it.
C28_UserAssistantPairs ==
    LET msgs == StoredMessages("s1")
    IN  \A i \in 1..Len(msgs) :
            /\ (msgs[i].role = "user" /\ i < Len(msgs)) =>
                  /\ msgs[i + 1].role = "assistant"
                  /\ msgs[i + 1].content = C28_ReplyTo(msgs[i].content)
            /\ msgs[i].role = "assistant" =>
                  /\ i > 1
                  /\ msgs[i - 1].role = "user"
                  /\ msgs[i].content = C28_ReplyTo(msgs[i - 1].content)


\* The script at position i of the third-party list matches none of the
\* first-party, known-framework and registry tiers.
C29_OracleBound(i) ==
    LET u == thirdPartyScripts[i].url
    IN  /\ URLParses(u)
        /\ ~isFirstParty(u, hostname(reqUrl))
        /\ ~isKnownFramework(u)
        /\ FirstServiceMatch(hostname(u)) = 0

\* The positions for which an oracle call was issued.
C29_Called == {i \in 1..Len(tasks) : tasks[i].ai >= 1}

\* C29: one analyze request issues at most 10 oracle calls: exactly one for
\* each of the first 10 third-party scripts that matches none of the three
\* synchronous tiers, none for another script or for a script beyond the
\* tenth, and every call completes at most once (there is no retry).
C29_OracleCallsBounded ==
    /\ Len(tasks) <= 10
    /\ Len(tasks) <= Len(thirdPartyScripts)
    /\ Cardinality(C29_Called) <= 10
    /\ \A i \in 1..Len(tasks) :
          tasks[i].ai = IF C29_OracleBound(i) THEN 1 ELSE 0
    /\ apc \in {"analyzing", "storing"} =>
          \A i \in 1..Len(thirdPartyScripts) :
              (i <= 10 /\ C29_OracleBound(i)) => (i \in C29_Called)
    /\ \A j \in 1..Len(completed) :
          /\ completed[j] \in C29_Called
          /\ \A k \in 1..Len(completed) : completed[j] = completed[k] => j = k

\* Eleven third-party scripts, the tenth and the eleventh both unknown to the
\* three tiers: one oracle call was issued, for the tenth, it has completed,
\* and none was issued for the eleventh.
C29_Witness ==
    /\ apc = "done"
    /\ aresp.status = 200
    /\ Len(thirdPartyScripts) = 11
    /\ C29_OracleBound(10)
    /\ C29_OracleBound(11)
    /\ C29_Called = {10}
    /\ completed = <<10>>

====
